---- MODULE Spec2Model ----
(***************************************************************************)
(* gachix: the closure resolver of src/git_store/store.rs (Store), run by  *)
(* concurrent callers against several instances.  An instance is a Git     *)
(* repository (its refs/<H>/result and refs/<H>/narinfo), a list of Nix    *)
(* daemons and a list of Git remotes, which are other instances.           *)
(*                                                                         *)
(* A caller (a task) runs one add_single or add_closure at a time.  A step *)
(* of a task is one access to a repository (a read of refs, a fetch, an    *)
(* add_ref) together with the local computation around it; the exchange    *)
(* with the daemons touches no repository ref and is one step.             *)
(***************************************************************************)
EXTENDS Integers, Sequences, FiniteSets, TLC

\* ------------------------------------------------------------- bounds
NumPkgs == 3
NumTasks == 2
MaxCalls == 2
MaxFaults == 1
\* The depth the specification asks the resolver to cap recursion at.
DepthLimit == 100

Tasks == 1..NumTasks
Instances == {1, 2, 3}

VARIABLES
    result,     \* result[i]: hash -> OID, the refs/<H>/result of instance i
    narinfo,    \* narinfo[i]: hash -> blob, the refs/<H>/narinfo of instance i
    drefs,      \* the references every daemon reports: hash -> list of hashes
    has,        \* has[d]: the store paths daemon d holds
    task,       \* task[t]: the caller t and the call it runs
    calls,      \* calls started so far
    faults,     \* I/O faults injected so far
    succeeded,  \* <<i, H>>: an add_closure(H) on instance i returned Ok
    written,    \* <<i, kind, H, oid>>: that ref was set to that OID (add_ref or fetch)
    odb,        \* the commits hashed so far: odb[k] is the content of commit OID k
    cache       \* the CaCache of src/store.rs: its mutex, its HEAD tree, its callers

vars ==
    <<result, narinfo, drefs, has, task, calls, faults, succeeded, written, odb, cache>>

\* The variables of the Store (src/git_store/store.rs).
storeVars == <<result, narinfo, drefs, has, task, calls, faults, succeeded, written, odb>>

\* ------------------------------------------------------- configuration
\* settings::Store of each instance (src/git_store/store.rs:36-47, 218).
\* Instance 1 is a builder-side cache, 2 replicates from 1 and has a
\* builder of its own, 3 replicates only (no daemon at all).
settings ==
    [i \in Instances |->
        CASE i = 1 -> [use_local_nix_daemon |-> TRUE,  builders |-> <<"b1">>, remotes |-> <<>>]
          [] i = 2 -> [use_local_nix_daemon |-> FALSE, builders |-> <<"b1">>, remotes |-> <<1>>]
          [] OTHER -> [use_local_nix_daemon |-> FALSE, builders |-> <<>>,     remotes |-> <<1, 2>>]]

DaemonIds == {"local1", "local2", "local3", "b1"}

LocalDaemon(i) ==
    CASE i = 1 -> "local1" [] i = 2 -> "local2" [] OTHER -> "local3"

\* An available_daemons that appends the local daemon to the builders.
available_daemons_local_last(i) ==
    settings[i].builders
        \o (IF settings[i].use_local_nix_daemon THEN <<LocalDaemon(i)>> ELSE <<>>)

available_daemons(i) ==
    (IF settings[i].use_local_nix_daemon THEN <<LocalDaemon(i)>> ELSE <<>>)
        \o settings[i].builders

\* ------------------------------------------------------------- helpers
Range(s) == {s[k] : k \in 1..Len(s)}

Put(f, k, v) == [x \in DOMAIN f \cup {k} |-> IF x = k THEN v ELSE f[x]]

Empty == [x \in {} |-> 0]

\* Git objects, addressed by content: the value is the OID.
TreeOid(p) == [kind |-> "tree", of |-> p]

\* NarInfo::new(store_path, key, ..., references) and its blob.
NarInfo(p, key, refs) == [kind |-> "blob", path |-> p, key |-> key, refs |-> refs]

\* GitRepo::commit(tree, parents, message): the content of the commit (the
\* signature and the time are constants) and its OID, the same for the
\* same content whichever repository hashes it.
\* A commit signed with the time of the clock (the calls made so far).
CommitContentAtTime(tree, parents, name) ==
    [tree |-> tree, parents |-> parents, msg |-> name, time |-> calls]

CommitContent(tree, parents, name) == [tree |-> tree, parents |-> parents, msg |-> name]

OidOf(c) ==
    IF \E k \in 1..Len(odb) : odb[k] = c
    THEN CHOOSE k \in 1..Len(odb) : odb[k] = c
    ELSE Len(odb) + 1

CommitOid(tree, parents, name) ==
    [kind |-> "commit", id |-> OidOf(CommitContent(tree, parents, name))]

Hashed(c) == IF \E k \in 1..Len(odb) : odb[k] = c THEN odb ELSE Append(odb, c)

IsCommit(oid) == oid.kind = "commit"

\* NarInfo::get_dependencies: the References list, in order.
get_dependencies(blob) == blob.refs

\* A get_commit that never finds the ref.
get_commit_never(i, p) == <<>>

\* Store::get_commit: the OID of refs/<H>/result, if any (an Option: <<>> or <<oid>>).
get_commit(i, p) == IF p \in DOMAIN result[i] THEN <<result[i][p]>> ELSE <<>>

\* Store::entry_exists: only the result ref is looked at.
entry_exists(i, p) == p \in DOMAIN result[i]

\* Store::num_available_packages: the refs/*/narinfo.
num_available_packages(nar, i) == Cardinality(DOMAIN nar[i])

\* ------------------------------------------------------------- daemons
\* A fault of one exchange with the daemons: none (<<>>), or the k-th daemon
\* of the list fails to connect or fails an RPC after connecting.
DaemonFaults(ds) ==
    {<<>>} \cup (IF faults < MaxFaults THEN (1..Len(ds)) \X {"connect", "rpc"} ELSE {})

\* Store::get_package_from_nix_daemons, from daemon k of the list on:
\* res is "Err" (a `?` returned early), "None" (no daemon has the path) or
\* "Some"; ev lists what was done with which daemon, in order.
RECURSIVE from_daemons(_, _, _, _)
from_daemons(ds, k, p, flt) ==
    IF k > Len(ds) THEN [res |-> "None", ev |-> <<>>]
    ELSE LET d == ds[k] IN
         IF flt = <<k, "connect">>
         THEN [res |-> "Err", ev |-> << <<"connect_failed", d>> >>]
         ELSE IF flt = <<k, "rpc">>
         THEN [res |-> "Err", ev |-> << <<"connect", d>>, <<"rpc_failed", d>> >>]
         ELSE IF p \notin has[d]
         THEN LET rest == from_daemons(ds, k + 1, p, flt)
              IN  [res |-> rest.res,
                   ev |-> << <<"connect", d>>, <<"path_exists", d>> >> \o rest.ev]
         ELSE [res |-> "Some",
               ev |-> << <<"connect", d>>, <<"path_exists", d>>, <<"fetch", d>>,
                         <<"get_pathinfo", d>>, <<"disconnect", d>> >>]

get_package_from_nix_daemons(i, p, flt) == from_daemons(available_daemons(i), 1, p, flt)

\* Oid::to_string: the hex form of an OID, a string and no OID.
to_string(oid) == [hex |-> oid]

\* A build_narinfo that takes the hash of the archive for the key.
build_narinfo_nar_key(key, p) == NarInfo(p, to_string([kind |-> "nar", of |-> p]), drefs[p])

\* Store::build_narinfo: the record built from the daemon's path info, with
\* the key it was given.
build_narinfo(key, p) == NarInfo(p, key, drefs[p])

\* The daemon events of one exchange, as entries <<event, daemon, hash>> of a log.
DaemonLog(ev, p) == {<<ev[k][1], ev[k][2], p>> : k \in 1..Len(ev)}

\* -------------------------------------------------------------- frames
\* One activation of Store::_add_closure (or the tail of add_single).
NewFrame(p) ==
    [p |-> p, pc |-> "local", ri |-> 1, remote |-> 0, coid |-> <<>>,
     open |-> <<>>, visited |-> {}, todo |-> <<>>, popped |-> <<>>,
     tree |-> <<>>, blob |-> <<>>, deps |-> <<>>, di |-> 1, parents |-> <<>>]

IdleTask ==
    [st |-> "idle", inst |-> 0, op |-> "", root |-> 0, stack |-> <<>>, deep |-> FALSE,
     outcome |-> "", why |-> "", at |-> 0, tier |-> "", again |-> FALSE,
     dlog |-> {}, rlog |-> {}, wrote |-> {}, before |-> 0, added |-> 0,
     hits |-> {}, fresh |-> FALSE, seeded |-> {}]

Top(tk) == tk.stack[Len(tk.stack)]

SetTop(tk, f) == [tk EXCEPT !.stack = [@ EXCEPT ![Len(@)] = f]]

\* The frames kept of a recursion: all of them while the recursion is no
\* deeper than an acyclic reference graph over the packages allows, else the
\* innermost ones (deep records that outer frames exist and are not kept).
Window == Cardinality(DOMAIN drefs) + 2

Push(tk, f) ==
    IF Len(tk.stack) < Window
    THEN [tk EXCEPT !.stack = Append(@, f)]
    ELSE [tk EXCEPT !.stack = Append(Tail(@), f), !.deep = TRUE]

\* A frame can return to its caller when the caller is represented.
CanReturn(tk) == Len(tk.stack) > 1 \/ ~tk.deep

\* `return Ok(None)` and `?`: both unwind add_closure to its caller, which
\* gets an error (store.rs:119-122, 113).
Fail(tk, why, at) ==
    [tk EXCEPT !.st = "done", !.stack = <<>>, !.outcome = "Err", !.why = why, !.at = at]

\* `return Ok(Some(oid))` of the innermost _add_closure: to add_closure when
\* it is the root (store.rs:114-118: count the packages again), else to the
\* loop over the dependencies of the caller (store.rs:153-156).
ReturnSome(tk, oid, tier, nar) ==
    IF Len(tk.stack) = 1
    THEN [tk EXCEPT !.st = "done", !.stack = <<>>, !.outcome = "Ok", !.tier = tier,
                    !.added = num_available_packages(nar, tk.inst) - tk.before]
    ELSE LET n == Len(tk.stack)
             par == tk.stack[n - 1]
         IN  [tk EXCEPT !.stack = Append(SubSeq(@, 1, n - 2),
                                         [par EXCEPT !.parents = Append(@, oid),
                                                     !.di = @ + 1])]

\* ----------------------------------------------------------- git fetch
\* GitRepo::fetch(remote, "refs/<H>/*") as the repository sees it: the refs
\* of H that remote r holds are copied over the local ones.
FetchRefs(f, i, r, p) ==
    [f EXCEPT ![i] = IF p \in DOMAIN f[r] THEN Put(@, p, f[r][p]) ELSE @]

\* Some(()) when at least one ref was retrieved.
Fetched(r, p) == p \in DOMAIN result[r] \/ p \in DOMAIN narinfo[r]

\* The refs <<kind, H>> a fetch of H from r sets.
FetchSets(r, p) ==
    (IF p \in DOMAIN result[r] THEN {<<"result", p>>} ELSE {})
        \cup (IF p \in DOMAIN narinfo[r] THEN {<<"narinfo", p>>} ELSE {})

FetchWrites(i, r, p) ==
    (IF p \in DOMAIN result[r] THEN {<<i, "result", p, result[r][p]>>} ELSE {})
        \cup (IF p \in DOMAIN narinfo[r] THEN {<<i, "narinfo", p, narinfo[r][p]>>} ELSE {})

\* A fetch_from_remote that never reports the refs it retrieved.
fetch_from_remote_none(i, r, p, fault) == IF fault THEN "Err" ELSE "None"

\* Store::fetch_from_remote(H, remote): "Err" when the fetch fails or
\* retrieved refs without a result ref, else "Some" or "None".
fetch_from_remote(i, r, p, fault) ==
    IF fault THEN "Err"
    ELSE IF ~Fetched(r, p) THEN "None"
    ELSE IF p \in DOMAIN FetchRefs(result, i, r, p)[i] THEN "Some"
    ELSE "Err"

\* Store::get_dep_ids and the loop `while let Some(id) = open.pop_front()`
\* up to the next dependency to look at: ids whose reference list is empty
\* are dequeued on the way.  k is "dep" (todo holds the references of the id
\* dequeued last), "end" (the queue is empty) or "err" (no narinfo for id).
RECURSIVE WalkAdvance(_, _)
WalkAdvance(nar, open) ==
    IF open = <<>> THEN [k |-> "end", open |-> <<>>, todo |-> <<>>, id |-> 0]
    ELSE LET id == Head(open) IN
         IF id \notin DOMAIN nar
         THEN [k |-> "err", open |-> Tail(open), todo |-> <<>>, id |-> id]
         ELSE IF get_dependencies(nar[id]) = <<>>
         THEN WalkAdvance(nar, Tail(open))
         ELSE [k |-> "dep", open |-> Tail(open),
               todo |-> get_dependencies(nar[id]), id |-> id]

\* The ids that `open.pop_front()` took from the queue `open` to leave rest.
Dequeued(open, rest) == SubSeq(open, 1, Len(open) - Len(rest))

\* The walk of get_package_commit_from_git_remotes from frame f on, given
\* the refs as they are now: the task after it.
WalkOn(tk, f, nar) ==
    IF f.todo # <<>> THEN SetTop(tk, f)
    ELSE LET a == WalkAdvance(nar[tk.inst], f.open) IN
         CASE a.k = "err" -> Fail(tk, "missing_narinfo", a.id)
           [] a.k = "end" -> ReturnSome(tk, f.coid[1], "peer", nar)
           [] OTHER       ->
                SetTop(tk, [f EXCEPT !.open = a.open, !.todo = a.todo,
                                     !.popped = @ \o Dequeued(f.open, a.open)])

\* The remotes are tried in list order; after the last, the daemons.
AfterMiss(i, f, ri) ==
    IF ri > Len(settings[i].remotes)
    THEN [f EXCEPT !.pc = "daemons"]
    ELSE [f EXCEPT !.pc = "remotes", !.ri = ri]

\* ------------------------------------------------------------- actions
Running(t, pc) == task[t].st = "run" /\ Top(task[t]).pc = pc

\* Callers are interchangeable: caller t+1 is used once caller t has been.
MayCallUpTo(t, n) ==
    /\ task[t].st \in {"idle", "done"}
    /\ calls < n
    /\ IF t = 1 THEN TRUE ELSE task[t - 1].st # "idle"

MayCall(t) == MayCallUpTo(t, MaxCalls)

\* The remotes of instance i on which an add_closure(p) that ingested p from
\* a daemon has returned Ok (as far as the callers still tell).
SeededRemotes(i, p) ==
    {r \in Range(settings[i].remotes) :
        \E u \in Tasks : /\ task[u].st = "done" /\ task[u].op = "add_closure"
                          /\ task[u].inst = r /\ task[u].root = p
                          /\ task[u].outcome = "Ok" /\ task[u].tier = "daemon"}

\* An I/O operation fails or not, while faults are left to inject.
FaultChoice == {FALSE} \cup (IF faults < MaxFaults THEN {TRUE} ELSE {})

\* The add_closure calls that returned Ok, kept once task' is known.
Record(t) ==
    succeeded' = IF task'[t].st = "done" /\ task'[t].outcome = "Ok"
                    /\ task'[t].op = "add_closure"
                 THEN succeeded \cup {<<task[t].inst, task[t].root>>} ELSE succeeded

\* Store::add_closure, up to the call of _add_closure.
StartClosure(t, i, p) ==
    /\ task' = [task EXCEPT ![t] =
                  [IdleTask EXCEPT !.st = "run", !.inst = i, !.op = "add_closure",
                                   !.root = p, !.stack = <<NewFrame(p)>>,
                                   !.again = (<<i, p>> \in succeeded),
                                   !.before = num_available_packages(narinfo, i),
                                   !.fresh = (result[i] = Empty /\ narinfo[i] = Empty),
                                   !.seeded = SeededRemotes(i, p)]]
    /\ calls' = calls + 1
    /\ UNCHANGED <<result, narinfo, drefs, has, odb, faults, succeeded, written, cache>>

call_add_closure(t, i, p) == MayCall(t) /\ StartClosure(t, i, p)

\* _add_closure: "Check if commit already exists locally".
add_closure_local(t) ==
    /\ Running(t, "local")
    /\ LET tk == task[t]
           f == Top(tk)
           c == get_commit(tk.inst, f.p)
       IN  IF c # <<>>
           THEN /\ CanReturn(tk)
                /\ task' = [task EXCEPT ![t] =
                              ReturnSome([tk EXCEPT !.hits = @ \cup {f.p}],
                                         c[1], "local", narinfo)]
           ELSE task' = [task EXCEPT ![t] = SetTop(tk, AfterMiss(tk.inst, f, 1))]
    /\ Record(t)
    /\ UNCHANGED <<result, narinfo, drefs, has, odb, calls, faults, written, cache>>

\* _add_closure: "Ask Git peers if they have replicated the package"; one
\* turn of the loop over the remotes of get_package_commit_from_git_remotes
\* and, on the first success, the start of the walk of the dependencies.
add_closure_remote(t) ==
    /\ Running(t, "remotes")
    /\ \E fault \in FaultChoice :
        LET tk0 == task[t]
            i == tk0.inst
            f == Top(tk0)
            r == settings[i].remotes[f.ri]
            tk == [tk0 EXCEPT !.rlog = @ \cup {<<r, f.p>>},
                              !.wrote = IF fault THEN @ ELSE @ \cup FetchSets(r, f.p)]
            out == fetch_from_remote(i, r, f.p, fault)
        IN  /\ faults' = IF fault THEN faults + 1 ELSE faults
            /\ result' = IF fault THEN result ELSE FetchRefs(result, i, r, f.p)
            /\ narinfo' = IF fault THEN narinfo ELSE FetchRefs(narinfo, i, r, f.p)
            /\ written' = IF fault THEN written ELSE written \cup FetchWrites(i, r, f.p)
            /\ CASE out = "Err" ->
                      task' = [task EXCEPT ![t] =
                                 Fail(tk, IF fault THEN "peer_fault" ELSE "no_commit", f.p)]
                 [] out = "None" ->
                      task' = [task EXCEPT ![t] = SetTop(tk, AfterMiss(i, f, f.ri + 1))]
                 [] OTHER ->
                      LET g == [f EXCEPT !.pc = "walk", !.coid = <<result'[i][f.p]>>,
                                         !.remote = r, !.open = <<f.p>>,
                                         !.visited = {f.p}]
                      IN  /\ Len(tk.stack) = 1 => ~tk.deep
                          /\ task' = [task EXCEPT ![t] = WalkOn(tk, g, narinfo')]
    /\ Record(t)
    /\ UNCHANGED <<drefs, has, odb, calls, cache>>

\* A `visited` set that never reports a hash as seen.
visited_contains_never(f, dep) == FALSE

\* `visited.contains(dep_hash)` (store.rs:241).
visited_contains(f, dep) == dep \in f.visited

\* get_package_commit_from_git_remotes: one dependency of the walk
\* (store.rs:240-258), fetched from the remote that had the root when the
\* two refs are not both there.
add_closure_walk(t) ==
    /\ Running(t, "walk")
    /\ LET tk0 == task[t]
           i == tk0.inst
           f == Top(tk0)
           dep == Head(f.todo)
           f1 == [f EXCEPT !.todo = Tail(@)]
           f2 == [f1 EXCEPT !.open = Append(@, dep), !.visited = @ \cup {dep}]
       IN  /\ Len(tk0.stack) = 1 => ~tk0.deep
           /\ IF visited_contains(f, dep)
              THEN /\ task' = [task EXCEPT ![t] = WalkOn(tk0, f1, narinfo)]
                   /\ UNCHANGED <<result, narinfo, faults, written>>
              ELSE IF dep \in DOMAIN result[i] /\ dep \in DOMAIN narinfo[i]
              THEN /\ task' = [task EXCEPT ![t] = WalkOn(tk0, f2, narinfo)]
                   /\ UNCHANGED <<result, narinfo, faults, written>>
              ELSE \E fault \in FaultChoice :
                     LET tk == [tk0 EXCEPT !.rlog = @ \cup {<<f.remote, dep>>},
                                           !.wrote = IF fault THEN @
                                                     ELSE @ \cup FetchSets(f.remote, dep)]
                         out == fetch_from_remote(i, f.remote, dep, fault)
                     IN  /\ faults' = IF fault THEN faults + 1 ELSE faults
                         /\ result' = IF fault THEN result
                                      ELSE FetchRefs(result, i, f.remote, dep)
                         /\ narinfo' = IF fault THEN narinfo
                                       ELSE FetchRefs(narinfo, i, f.remote, dep)
                         /\ written' = IF fault THEN written
                                       ELSE written \cup FetchWrites(i, f.remote, dep)
                         /\ task' = [task EXCEPT ![t] =
                                       IF out = "Err"
                                       THEN Fail(tk, IF fault THEN "peer_fault"
                                                     ELSE "no_commit", dep)
                                       ELSE WalkOn(tk, f2, narinfo')]
    /\ Record(t)
    /\ UNCHANGED <<drefs, has, odb, calls, cache>>

\* _add_closure: "Ask known Nix daemons if they can build the package";
\* anything but Ok(Some(..)) makes the node return Ok(None).
add_closure_daemons(t) ==
    /\ Running(t, "daemons")
    /\ LET tk0 == task[t]
           i == tk0.inst
           f == Top(tk0)
       IN  \E flt \in DaemonFaults(available_daemons(i)) :
             LET r == get_package_from_nix_daemons(i, f.p, flt)
                 tk == [tk0 EXCEPT !.dlog = @ \cup DaemonLog(r.ev, f.p)]
                 tree == TreeOid(f.p)
                 nar == build_narinfo(to_string(tree), f.p)
             IN  /\ faults' = IF r.res = "Err" THEN faults + 1 ELSE faults
                 /\ task' = [task EXCEPT ![t] =
                      IF r.res = "Some"
                      THEN SetTop(tk, [f EXCEPT !.pc = "deps", !.tree = <<tree>>,
                                                !.blob = <<nar>>,
                                                !.deps = get_dependencies(nar),
                                                !.di = 1, !.parents = <<>>])
                      ELSE Fail(tk, IF r.res = "Err" THEN "daemon_fault"
                                    ELSE "unresolvable", f.p)]
    /\ UNCHANGED <<result, narinfo, drefs, has, odb, calls, succeeded, written, cache>>

\* _add_closure: "Recurse into package dependecies": the call for the next
\* dependency of the list.
add_closure_deps(t) ==
    /\ Running(t, "deps")
    /\ LET tk == task[t]
           f == Top(tk)
       IN  /\ f.di <= Len(f.deps)
           /\ task' = [task EXCEPT ![t] = Push(tk, NewFrame(f.deps[f.di]))]
    /\ UNCHANGED <<result, narinfo, drefs, has, odb, calls, faults, succeeded, written, cache>>

\* GitRepo::commit given parents that are not all commits: it fails, or it
\* writes the commit all the same.
commit_outcomes(parents) ==
    IF \A k \in 1..Len(parents) : IsCommit(parents[k]) THEN {"Ok"} ELSE {"Ok", "Err"}

\* _add_closure: "Commit the package tree and specify dependency commits as
\* parents", then the first add_ref (refs/<H>/result).
add_closure_commit(t) ==
    /\ Running(t, "deps")
    /\ LET tk == task[t]
           i == tk.inst
           f == Top(tk)
           commit_oid == CommitOid(f.tree[1], f.parents, f.p)
           tk1 == [tk EXCEPT !.wrote = @ \cup {<<"result", f.p>>}]
       IN  /\ f.di > Len(f.deps)
           /\ \E fault \in FaultChoice, c \in commit_outcomes(f.parents) :
                IF fault \/ c = "Err"
                THEN /\ task' = [task EXCEPT ![t] =
                                   Fail(tk, IF fault THEN "storage" ELSE "commit", f.p)]
                     /\ faults' = IF fault THEN faults + 1 ELSE faults
                     /\ odb' = IF c = "Err" THEN odb
                               ELSE Hashed(CommitContent(f.tree[1], f.parents, f.p))
                     /\ UNCHANGED <<result, written>>
                ELSE /\ odb' = Hashed(CommitContent(f.tree[1], f.parents, f.p))
                     /\ result' = [result EXCEPT ![i] = Put(@, f.p, commit_oid)]
                     /\ written' = written \cup {<<i, "result", f.p, commit_oid>>}
                     /\ task' = [task EXCEPT ![t] =
                                   SetTop(tk1, [f EXCEPT !.pc = "ref2",
                                                        !.coid = <<commit_oid>>])]
                     /\ UNCHANGED faults
    /\ UNCHANGED <<narinfo, drefs, has, calls, succeeded, cache>>

\* _add_closure: the second add_ref (refs/<H>/narinfo) and Ok(Some(commit_oid)).
add_closure_ref2(t) ==
    /\ Running(t, "ref2")
    /\ LET tk == task[t]
           i == tk.inst
           f == Top(tk)
       IN  \E fault \in FaultChoice :
             IF fault
             THEN /\ task' = [task EXCEPT ![t] = Fail(tk, "storage", f.p)]
                  /\ faults' = faults + 1
                  /\ UNCHANGED <<narinfo, written>>
             ELSE /\ CanReturn(tk)
                  /\ narinfo' = [narinfo EXCEPT ![i] = Put(@, f.p, f.blob[1])]
                  /\ written' = written \cup {<<i, "narinfo", f.p, f.blob[1]>>}
                  /\ task' = [task EXCEPT ![t] =
                                ReturnSome([tk EXCEPT !.wrote = @ \cup {<<"narinfo", f.p>>}],
                                           f.coid[1], "daemon", narinfo')]
                  /\ UNCHANGED faults
    /\ Record(t)
    /\ UNCHANGED <<result, drefs, has, odb, calls, cache>>

\* Store::add_single up to its add_ref calls: the narinfo ref is looked
\* for, then the daemons are asked.
StartSingle(t, i, p) ==
    /\ LET tk == [IdleTask EXCEPT !.st = "run", !.inst = i, !.op = "add_single",
                                  !.root = p]
       IN  IF p \in DOMAIN narinfo[i]
           THEN /\ task' = [task EXCEPT ![t] =
                              [tk EXCEPT !.st = "done", !.outcome = "Ok",
                                         !.tier = "local"]]
                /\ UNCHANGED faults
           ELSE \E flt \in DaemonFaults(available_daemons(i)) :
                  LET r == get_package_from_nix_daemons(i, p, flt)
                      tk1 == [tk EXCEPT !.dlog = DaemonLog(r.ev, p)]
                      tree == TreeOid(p)
                  IN  /\ faults' = IF r.res = "Err" THEN faults + 1 ELSE faults
                      /\ task' = [task EXCEPT ![t] =
                           IF r.res = "Some"
                           THEN [tk1 EXCEPT !.stack =
                                   <<[NewFrame(p) EXCEPT !.pc = "s_ref1",
                                        !.tree = <<tree>>,
                                        !.blob = <<build_narinfo(to_string(tree), p)>>]>>]
                           ELSE Fail(tk1, IF r.res = "Err" THEN "daemon_fault"
                                          ELSE "unresolvable", p)]
    /\ calls' = calls + 1
    /\ UNCHANGED <<result, narinfo, drefs, has, odb, succeeded, written, cache>>

call_add_single(t, i, p) == MayCall(t) /\ StartSingle(t, i, p)

\* add_single: add_ref(pkg_ref, package_tree_oid).
add_single_ref1(t) ==
    /\ Running(t, "s_ref1")
    /\ LET tk == task[t]
           f == Top(tk)
       IN  \E fault \in FaultChoice :
             IF fault
             THEN /\ task' = [task EXCEPT ![t] = Fail(tk, "storage", f.p)]
                  /\ faults' = faults + 1
                  /\ UNCHANGED <<result, written>>
             ELSE /\ result' = [result EXCEPT ![tk.inst] = Put(@, f.p, f.tree[1])]
                  /\ written' = written \cup {<<tk.inst, "result", f.p, f.tree[1]>>}
                  /\ task' = [task EXCEPT ![t] =
                                SetTop([tk EXCEPT !.wrote = @ \cup {<<"result", f.p>>}],
                                       [f EXCEPT !.pc = "s_ref2"])]
                  /\ UNCHANGED faults
    /\ UNCHANGED <<narinfo, drefs, has, odb, calls, succeeded, cache>>

\* add_single: add_ref(narinfo_ref, narinfo_blob_oid) and Ok(()).
add_single_ref2(t) ==
    /\ Running(t, "s_ref2")
    /\ LET tk == task[t]
           f == Top(tk)
       IN  \E fault \in FaultChoice :
             IF fault
             THEN /\ task' = [task EXCEPT ![t] = Fail(tk, "storage", f.p)]
                  /\ faults' = faults + 1
                  /\ UNCHANGED <<narinfo, written>>
             ELSE /\ narinfo' = [narinfo EXCEPT ![tk.inst] = Put(@, f.p, f.blob[1])]
                  /\ written' = written \cup {<<tk.inst, "narinfo", f.p, f.blob[1]>>}
                  /\ task' = [task EXCEPT ![t] =
                                [tk EXCEPT !.st = "done", !.stack = <<>>,
                                           !.outcome = "Ok", !.tier = "daemon",
                                           !.wrote = @ \cup {<<"narinfo", f.p>>}]]
                  /\ UNCHANGED faults
    /\ UNCHANGED <<result, drefs, has, odb, calls, succeeded, cache>>

\* ------------------------------------------------------------- CaCache
\* The calls of add made on one CaCache.
CacheCalls == MaxCalls + 1

\* CaCache::new: the repository behind its mutex, nobody holding it; head
\* is the set of the keys of the tree of HEAD (none in a new repository).
NewCache(keys) ==
    [owner |-> 0, poisoned |-> FALSE, head |-> keys, calls |-> 0,
     thread |-> [t \in Tasks |-> [st |-> "idle", path |-> "", pc |-> "", why |-> ""]]]

\* The paths given to add: a regular file, an empty directory, a directory
\* that holds one file, a directory that holds one empty directory.
Paths == {"file", "emptydir", "filedir", "nested"}

is_dir(path) == path # "file"

read_dir(path) ==
    CASE path = "filedir" -> <<"file">>
      [] path = "nested"  -> <<"emptydir">>
      [] OTHER            -> <<>>

\* The key of an entry: the hash of the content of a file (add_file), the
\* name of a directory (add_dir).
key_of(path) == IF is_dir(path) THEN <<"dir_name", path>> ELSE <<"file_hash", path>>

\* `self.repo.lock()` by thread t, std::sync::Mutex: the thread waits while
\* another thread holds the mutex (no outcome yet); a thread that holds it
\* already "might panic or deadlock"; a poisoned mutex gives Err, on which
\* unwrap() panics.
lock(t) ==
    IF cache.owner = t THEN {"panic", "deadlock"}
    ELSE IF cache.owner # 0 THEN {}
    ELSE IF cache.poisoned THEN {"poisoned"}
    ELSE {"ok"}

\* A panic unwinds the thread: a guard it holds is dropped and poisons the
\* mutex.
Panicked(t, why) ==
    [cache EXCEPT !.thread[t].st = "panicked", !.thread[t].why = why,
                  !.owner = IF @ = t THEN 0 ELSE @,
                  !.poisoned = @ \/ cache.owner = t]

\* The thread waits for the guard that it holds itself.
Deadlocked(t) ==
    [cache EXCEPT !.thread[t].st = "deadlocked", !.thread[t].why = "relock"]

\* `self.repo.lock().unwrap()` by thread t, followed by what the code does
\* with the guard: the cache is then ok.
LockThen(t, ok) ==
    \E o \in lock(t) :
        cache' = CASE o = "ok"       -> ok
                   [] o = "deadlock" -> Deadlocked(t)
                   [] o = "panic"    -> Panicked(t, "relock")
                   [] OTHER          -> Panicked(t, "poisoned")

At(t, pc) == cache.thread[t].st = "run" /\ cache.thread[t].pc = pc

\* CaCache::add, up to the query of add_file or add_dir.
cache_call_add(t, path) ==
    /\ cache.thread[t].st \in {"idle", "done"}
    /\ cache.calls < CacheCalls
    /\ cache' = [cache EXCEPT !.calls = @ + 1,
                              !.thread[t] = [st |-> "run", path |-> path,
                                             pc |-> "query", why |-> ""]]
    /\ UNCHANGED storeVars

\* add_file / add_dir: "return early if entry already exists"; query locks
\* in last_tree and the guard is dropped when last_tree returns.
cache_query(t) ==
    /\ At(t, "query")
    /\ LET path == cache.thread[t].path IN
        LockThen(t, IF key_of(path) \in cache.head
                    THEN [cache EXCEPT !.thread[t].st = "done"]
                    ELSE [cache EXCEPT !.thread[t].pc =
                                          IF is_dir(path) THEN "tree" ELSE "blob"])
    /\ UNCHANGED storeVars

\* add_file: `self.repo.lock().unwrap().blob(&buffer)?`; the guard is a
\* temporary of the statement.
cache_blob(t) ==
    /\ At(t, "blob")
    /\ LockThen(t, [cache EXCEPT !.thread[t].pc = "update"])
    /\ UNCHANGED storeVars

\* create_tree_from_dir: the guard `repo` taken on entry is held until the
\* function returns; a directory without entries is written at once.
cache_create_tree(t) ==
    /\ At(t, "tree")
    /\ LockThen(t, IF read_dir(cache.thread[t].path) = <<>>
                    THEN [cache EXCEPT !.thread[t].pc = "update"]
                    ELSE [cache EXCEPT !.owner = t, !.thread[t].pc = "entry"])
    /\ UNCHANGED storeVars

\* create_tree_from_dir, the first entry of the directory: a file takes
\* `self.repo.lock()` for blob_path, a directory calls create_tree_from_dir,
\* which takes it on entry.
cache_tree_entry(t) ==
    /\ At(t, "entry")
    /\ LockThen(t, [cache EXCEPT !.owner = 0, !.thread[t].pc = "update"])
    /\ UNCHANGED storeVars

\* update_tree_and_commit, up to the call of commit: the guard `repo` is
\* held until the function returns.
cache_update_tree(t) ==
    /\ At(t, "update")
    /\ LockThen(t, [cache EXCEPT !.owner = t, !.thread[t].pc = "commit"])
    /\ UNCHANGED storeVars

\* commit, called by update_tree_and_commit: takes `self.repo.lock()`,
\* commits to HEAD; add returns Ok.
cache_commit(t) ==
    /\ At(t, "commit")
    /\ LockThen(t, [cache EXCEPT !.owner = 0, !.thread[t].st = "done",
                                  !.head = @ \cup {key_of(cache.thread[t].path)}])
    /\ UNCHANGED storeVars

\* --------------------------------------------------------------- worlds
Pkgs == 1..NumPkgs

\* Reference graphs the daemons report: every package refers to all the
\* later ones; a chain in which every reference is listed twice.
DagRefs == [p \in Pkgs |-> [k \in 1..(NumPkgs - p) |-> p + k]]

DupRefs == [p \in Pkgs |-> IF p < NumPkgs THEN <<p + 1, p + 1>> ELSE <<>>]

\* What the daemons hold: everything; the local daemon of instance 1
\* nothing; nobody the last package.
HasAll == [d \in DaemonIds |-> Pkgs]

HasBuilderOnly == [d \in DaemonIds |-> IF d = "b1" THEN Pkgs ELSE {}]

HasNoLeaf == [d \in DaemonIds |-> Pkgs \ {NumPkgs}]

Worlds ==
    {<<DagRefs, HasAll>>, <<DagRefs, HasBuilderOnly>>, <<DagRefs, HasNoLeaf>>,
     <<DupRefs, HasAll>>}

InitStore ==
    /\ result = [i \in Instances |-> Empty]
    /\ narinfo = [i \in Instances |-> Empty]
    /\ task = [t \in Tasks |-> IdleTask]
    /\ calls = 0
    /\ faults = 0
    /\ succeeded = {}
    /\ written = {}
    /\ odb = <<>>

InitRepo == InitStore /\ cache = NewCache({})

Init ==
    /\ InitRepo
    /\ \E w \in Worlds : drefs = w[1] /\ has = w[2]

Next ==
    \E t \in Tasks :
        \/ \E i \in Instances, p \in DOMAIN drefs : call_add_closure(t, i, p)
        \/ \E i \in Instances, p \in DOMAIN drefs : call_add_single(t, i, p)
        \/ add_closure_local(t)
        \/ add_closure_remote(t)
        \/ add_closure_walk(t)
        \/ add_closure_daemons(t)
        \/ add_closure_deps(t)
        \/ add_closure_commit(t)
        \/ add_closure_ref2(t)
        \/ add_single_ref1(t)
        \/ add_single_ref2(t)

Spec == Init /\ [][Next]_vars

\* ------------------------------------------------------------- closure
\* The transitive references of a set of store paths, themselves included.
RECURSIVE ClosureOf(_)
ClosureOf(S) ==
    LET more == S \cup UNION {Range(drefs[p]) : p \in S}
    IN  IF more = S THEN S ELSE ClosureOf(more)

Closure(p) == ClosureOf({p})

HasBoth(i, p) == p \in DOMAIN result[i] /\ p \in DOMAIN narinfo[i]

Returned(t, op) == task[t].st = "done" /\ task[t].op = op

\* ---------------------------------------------------------------- C1
\* C1: whenever add_closure(P) returns success, every store path in the
\* transitive references of P has both refs/<H>/result and refs/<H>/narinfo
\* in the repository of that instance.
C1_ClosurePresentOnSuccess ==
    \A t \in Tasks :
        (Returned(t, "add_closure") /\ task[t].outcome = "Ok")
            => \A q \in Closure(task[t].root) : HasBoth(task[t].inst, q)

\* ---------------------------------------------------------------- C2
\* C2: in every reachable state and for every hash H, refs/<H>/result
\* exists if and only if refs/<H>/narinfo exists.
C2_RefsTogether ==
    \A i \in Instances, p \in DOMAIN drefs :
        (p \in DOMAIN result[i]) <=> (p \in DOMAIN narinfo[i])

\* The same, looked at only when no call is running on any instance.
C2_RefsTogetherAtRest ==
    (\A t \in Tasks : task[t].st # "run") => C2_RefsTogether

\* ---------------------------------------------------------------- C3
\* No source of instance i can supply q: no local ref, no remote of i has
\* it, no daemon of i has it.
Unresolvable(i, q) ==
    /\ q \notin DOMAIN result[i]
    /\ \A r \in Range(settings[i].remotes) : ~Fetched(r, q)
    /\ \A d \in Range(available_daemons(i)) : q \notin has[d]

\* C3: if a descendant of root is unresolvable, add_closure(root) fails and
\* it writes neither refs/<H_root>/result nor refs/<H_root>/narinfo.
C3_NoPartialState ==
    \A t \in Tasks :
        (/\ Returned(t, "add_closure")
         /\ \E q \in Closure(task[t].root) \ {task[t].root} :
                Unresolvable(task[t].inst, q))
            => /\ task[t].outcome = "Err"
               /\ <<"result", task[t].root>> \notin task[t].wrote
               /\ <<"narinfo", task[t].root>> \notin task[t].wrote

\* ---------------------------------------------------------------- C4
\* C4: with one daemon that fails to connect followed in the list by a
\* working daemon that has P and its closure, add_closure(P) succeeds.
C4_DaemonFaultSkipped ==
    \A t \in Tasks :
        LET ds == available_daemons(task[t].inst) IN
        (/\ Returned(t, "add_closure")
         /\ faults = 1
         /\ settings[task[t].inst].remotes = <<>>
         /\ \E k \in 1..Len(ds) :
               /\ <<"connect_failed", ds[k], task[t].root>> \in task[t].dlog
               /\ \E k2 \in (k + 1)..Len(ds) : Closure(task[t].root) \subseteq has[ds[k2]])
            => task[t].outcome = "Ok"

\* ---------------------------------------------------------------- C5
\* Every remote and every daemon of the instance was tried for hash p
\* during the call of task t.
AllSourcesTried(t, p) ==
    /\ \A r \in Range(settings[task[t].inst].remotes) : <<r, p>> \in task[t].rlog
    /\ \A d \in Range(available_daemons(task[t].inst)) :
          \E e \in task[t].dlog : e[2] = d /\ e[3] = p

\* C5: a failed fetch from a Git remote is skipped: the call fails at a
\* node only after all the remotes and all the daemons were tried for it.
C5_PeerFaultSkipped ==
    \A t \in Tasks :
        (Returned(t, "add_closure") /\ task[t].outcome = "Err"
            /\ task[t].why = "peer_fault")
            => AllSourcesTried(t, task[t].at)

\* ---------------------------------------------------------------- C6
\* The hashes task t has ingested from a daemon in activations of
\* _add_closure that are still in progress.
InFlightIngested(t) ==
    IF task[t].st = "run" /\ task[t].op = "add_closure"
    THEN {task[t].stack[k].p : k \in {j \in 1..Len(task[t].stack) :
                                        task[t].stack[j].tree # <<>>}}
    ELSE {}

\* C6: concurrent add_closure calls on one repository never both ingest
\* the package of the same hash: one ingests, the others wait for it.
C6_SingleFlight ==
    \A t1, t2 \in Tasks :
        (t1 # t2 /\ task[t1].inst = task[t2].inst)
            => InFlightIngested(t1) \cap InFlightIngested(t2) = {}

\* ---------------------------------------------------------------- C7
\* C7: all the writes of one ref of one repository write the same OID.
C7_SameOidPerRef ==
    \A w1, w2 \in written :
        (w1[1] = w2[1] /\ w1[2] = w2[2] /\ w1[3] = w2[3]) => w1[4] = w2[4]

\* ---------------------------------------------------------------- C8
\* A reference chain 1 -> 2 -> ... -> n held by every daemon, resolved by
\* one caller on instance 1 (which has no remote): n is the depth bound and
\* the depth bound plus one.
ChainRefs(n) == [p \in 1..n |-> IF p < n THEN <<p + 1>> ELSE <<>>]

InitChain ==
    /\ InitRepo
    /\ \E n \in {DepthLimit, DepthLimit + 1} :
          /\ drefs = ChainRefs(n)
          /\ has = [d \in DaemonIds |-> 1..n]

NextChain ==
    \/ calls = 0 /\ call_add_closure(1, 1, 1)
    \/ add_closure_local(1)
    \/ add_closure_daemons(1)
    \/ add_closure_deps(1)
    \/ add_closure_commit(1)
    \/ add_closure_ref2(1)

SpecChain == InitChain /\ [][NextChain]_vars

\* C8: the recursion is cut at depth 100: without any I/O fault, resolving
\* the head of a chain of 101 packages through the daemons fails and writes
\* no ref for it, and the head of a chain of 100 packages succeeds.
C8_DepthCap ==
    \A t \in Tasks :
        (Returned(t, "add_closure") /\ task[t].root = 1 /\ faults = 0)
            => IF Cardinality(DOMAIN drefs) > DepthLimit
               THEN task[t].outcome = "Err" /\ 1 \notin DOMAIN result[task[t].inst]
               ELSE task[t].outcome = "Ok"

\* ---------------------------------------------------------------- C9
\* Malformed reference graphs: a ring through all the packages; every
\* package listing itself; two packages referring to each other and to a
\* leaf.
RingRefs == [p \in Pkgs |-> <<(p % NumPkgs) + 1>>]

SelfRefs == [p \in Pkgs |-> <<p>>]

LassoRefs ==
    [p \in Pkgs |-> IF p = NumPkgs THEN <<>>
                    ELSE <<NumPkgs, (p % (NumPkgs - 1)) + 1>>]

InitCycle ==
    /\ InitRepo
    /\ drefs \in {RingRefs, SelfRefs, LassoRefs}
    /\ has = HasAll

\* A step of the call that caller t runs on instance 1 (daemons, no remote).
StepCycle(t) ==
    \/ add_closure_local(t)
    \/ add_closure_daemons(t)
    \/ add_closure_deps(t)
    \/ add_closure_commit(t)
    \/ add_closure_ref2(t)

NextCycle ==
    \E t \in Tasks :
        \/ \E p \in DOMAIN drefs : call_add_closure(t, 1, p)
        \/ StepCycle(t)

\* The runtime polls every task that can make a step.
SpecCycle ==
    InitCycle /\ [][NextCycle]_vars /\ \A t \in Tasks : WF_vars(StepCycle(t))

\* C9: add_closure(P) eventually terminates, with success or an error, for
\* every finite reference graph, cyclic and self-referencing ones included.
C9_Terminates ==
    \A t \in Tasks : (task[t].st = "run") ~> (task[t].st = "done")

\* --------------------------------------------------------------- C10
\* C10: an add_closure(P) that follows a successful add_closure(P) on the
\* same repository succeeds from the local ref: it sets no ref, contacts
\* no daemon and fetches from no remote.
C10_Idempotent ==
    \A t \in Tasks :
        (Returned(t, "add_closure") /\ task[t].again)
            => /\ task[t].outcome = "Ok"
               /\ task[t].tier = "local"
               /\ task[t].wrote = {}
               /\ task[t].dlog = {}
               /\ task[t].rlog = {}

\* A second add_closure of a package with references has returned.
C10_Witness ==
    \E t \in Tasks :
        /\ Returned(t, "add_closure")
        /\ task[t].again
        /\ task[t].outcome = "Ok"
        /\ drefs[task[t].root] # <<>>
        /\ \A q \in Closure(task[t].root) : HasBoth(task[t].inst, q)

\* --------------------------------------------------------------- C11
\* The store path an object stands for: the package of a package commit
\* (its message is the package name) or of a package tree.
PkgOf(oid) == IF IsCommit(oid) THEN odb[oid.id].msg ELSE oid.of

\* The positions of the parents of commit content c that stand for package d.
ParentsFor(c, d) == {j \in 1..Len(c.parents) : PkgOf(c.parents[j]) = d}

\* C11: a package commit has exactly one parent for each dependency its
\* references list names, also when the list names it more than once.
C11_OneParentPerDependency ==
    \A k \in 1..Len(odb) :
        \A d \in Range(drefs[odb[k].msg]) : Cardinality(ParentsFor(odb[k], d)) = 1

\* --------------------------------------------------------------- C12
\* A list without the repetitions of its elements, in order of first occurrence.
RECURSIVE Dedup(_)
Dedup(s) ==
    IF s = <<>> THEN <<>>
    ELSE LET init == Dedup(SubSeq(s, 1, Len(s) - 1))
             last == s[Len(s)]
         IN  IF last \in Range(init) THEN init ELSE Append(init, last)

\* C12: the parents of a package commit are the commits of its dependencies
\* in the order of first occurrence in the references list, whichever tier
\* resolved each of them.
C12_ParentOrder ==
    \A k \in 1..Len(odb) :
        [j \in 1..Len(odb[k].parents) |-> PkgOf(odb[k].parents[j])]
            = Dedup(drefs[odb[k].msg])

\* --------------------------------------------------------------- C13
\* The OID the innermost node of tk hands to its caller in tk2, if it
\* returned one: to add_closure (the call is over, from tier), else to the
\* list of parents of the node that asked for it.
HandedOver(tk, tk2, oid, tier) ==
    IF Len(tk.stack) = 1
    THEN tk2.st = "done" /\ tk2.outcome = "Ok" /\ tk2.tier = tier
    ELSE /\ tk2.st = "run"
         /\ Len(tk2.stack) = Len(tk.stack) - 1
         /\ Top(tk2).parents = Append(tk.stack[Len(tk.stack) - 1].parents, oid)

\* C13: local wins.  A node whose refs/<H>/result exists when it is
\* resolved returns the OID of that ref in that step: no fetch from a Git
\* remote, no exchange with a daemon, no ref set.
C13_LocalWins ==
    [][\A t \in Tasks :
          (/\ Running(t, "local")
           /\ Top(task[t]).p \in DOMAIN result[task[t].inst]
           /\ task'[t] # task[t])
              => /\ HandedOver(task[t], task'[t],
                               result[task[t].inst][Top(task[t]).p], "local")
                 /\ task'[t].rlog = task[t].rlog
                 /\ task'[t].dlog = task[t].dlog
                 /\ task'[t].wrote = task[t].wrote
                 /\ result' = result /\ narinfo' = narinfo]_vars

\* A node was resolved from the local ref on an instance one of whose
\* remotes and one of whose daemons have the package as well.
C13_Witness ==
    \E t \in Tasks : \E p \in task[t].hits :
        /\ \E r \in Range(settings[task[t].inst].remotes) : p \in DOMAIN result[r]
        /\ \E d \in Range(available_daemons(task[t].inst)) : p \in has[d]

\* --------------------------------------------------------------- C14
\* The node of task tk2 that was the innermost node of tk is still being
\* resolved.
SameNode(tk, tk2) == tk2.st = "run" /\ Len(tk2.stack) = Len(tk.stack)

\* C14: the remotes are asked for H in list order, one per step; the first
\* that returns refs for H ends the search (no later remote, no daemon) and
\* is the remote of the walk; every fetch of the walk goes to that remote.
C14_FirstRemoteWins ==
    [][\A t \in Tasks :
          (/\ task[t].st = "run"
           /\ Top(task[t]).pc \in {"remotes", "walk"}
           /\ task'[t] # task[t])
              => LET tk == task[t]
                     f == Top(tk)
                     rs == settings[tk.inst].remotes
                     asked == task'[t].rlog \ tk.rlog
                 IN  IF f.pc = "remotes"
                     THEN /\ asked \subseteq {<<rs[f.ri], f.p>>}
                          /\ <<rs[f.ri], f.p>> \in task'[t].rlog
                          /\ IF Fetched(rs[f.ri], f.p)
                             THEN SameNode(tk, task'[t])
                                    => /\ Top(task'[t]).pc = "walk"
                                       /\ Top(task'[t]).remote = rs[f.ri]
                             ELSE faults' = faults
                                    => /\ SameNode(tk, task'[t])
                                       /\ IF f.ri < Len(rs)
                                          THEN /\ Top(task'[t]).pc = "remotes"
                                               /\ Top(task'[t]).ri = f.ri + 1
                                          ELSE Top(task'[t]).pc = "daemons"
                     ELSE /\ asked \subseteq {<<f.remote, q>> : q \in DOMAIN drefs}
                          /\ f.remote = rs[f.ri]
                          /\ SameNode(tk, task'[t])
                                => /\ Top(task'[t]).pc = "walk"
                                   /\ Top(task'[t]).remote = f.remote]_vars

\* A call on the instance with two remotes returned from the second one:
\* the first had no refs for the root, the dependencies were fetched from
\* the second and none from the first.
C14_Witness ==
    \E t \in Tasks :
        LET rs == settings[task[t].inst].remotes IN
        /\ Returned(t, "add_closure") /\ task[t].outcome = "Ok" /\ task[t].tier = "peer"
        /\ Len(rs) = 2
        /\ <<rs[1], task[t].root>> \in task[t].rlog
        /\ <<rs[2], task[t].root>> \in task[t].rlog
        /\ \E q \in DOMAIN drefs \ {task[t].root} : <<rs[2], q>> \in task[t].rlog
        /\ \A q \in DOMAIN drefs \ {task[t].root} : <<rs[1], q>> \notin task[t].rlog

\* --------------------------------------------------------------- C15
\* The daemon list the configuration asks for: the local daemon when
\* use_local_nix_daemon is set, then the builders in their order.
ConfiguredDaemons(i) ==
    IF settings[i].use_local_nix_daemon
    THEN <<LocalDaemon(i)>> \o settings[i].builders
    ELSE settings[i].builders

\* C15: a package is fetched from the first daemon of the list that has
\* the path, after the daemons before it were asked; no later daemon is
\* asked to fetch it; a node that asks the daemons for a path none of them
\* has ends the call with an error and no ref of that path set.
C15_FirstDaemonWins ==
    \A t \in Tasks :
        task[t].st # "idle" =>
            LET ds == ConfiguredDaemons(task[t].inst)
                log == task[t].dlog
            IN  /\ \A e \in log : e[2] \in Range(ds)
                /\ \A p \in DOMAIN drefs, k \in 1..Len(ds) :
                      <<"fetch", ds[k], p>> \in log
                          => /\ p \in has[ds[k]]
                             /\ \A j \in 1..(k - 1) :
                                   /\ p \notin has[ds[j]]
                                   /\ <<"path_exists", ds[j], p>> \in log
                             /\ \A j \in (k + 1)..Len(ds) :
                                   <<"fetch", ds[j], p>> \notin log
                /\ \A p \in DOMAIN drefs :
                      (/\ \E e \in log : e[3] = p
                       /\ \A k \in 1..Len(ds) : p \notin has[ds[k]])
                          => /\ task[t].st = "done" /\ task[t].outcome = "Err"
                             /\ task[t].at = p
                             /\ <<"result", p>> \notin task[t].wrote
                             /\ <<"narinfo", p>> \notin task[t].wrote

\* A package was fetched from the local daemon, first of the list, while
\* the builder after it has the package too and was not contacted for it.
C15_Witness ==
    \E t \in Tasks : \E p \in DOMAIN drefs :
        LET ds == ConfiguredDaemons(task[t].inst) IN
        /\ task[t].op = "add_closure"
        /\ settings[task[t].inst].use_local_nix_daemon
        /\ Len(ds) = 2
        /\ <<"fetch", ds[1], p>> \in task[t].dlog
        /\ p \in has[ds[2]]
        /\ \A e \in task[t].dlog : ~(e[2] = ds[2] /\ e[3] = p)

\* A node asked every daemon of the list for a path none of them has.
C15_WitnessNone ==
    \E t \in Tasks : \E p \in DOMAIN drefs :
        LET ds == ConfiguredDaemons(task[t].inst) IN
        /\ Returned(t, "add_closure") /\ Len(ds) = 2
        /\ \A k \in 1..Len(ds) :
              p \notin has[ds[k]] /\ <<"path_exists", ds[k], p>> \in task[t].dlog

\* --------------------------------------------------------------- C16
\* C16: every daemon connection opened for a path during a call is
\* disconnected, whichever way the exchange with that daemon ends: the
\* path is not there, an RPC or the fetch fails, or the package is taken.
C16_DisconnectOnEveryPath ==
    \A t \in Tasks :
        \A e \in task[t].dlog :
            e[1] = "connect" => <<"disconnect", e[2], e[3]>> \in task[t].dlog

\* --------------------------------------------------------------- C17
\* The package of hash p is complete on instance i: its narinfo ref is set
\* and every dependency it lists has a result ref.
Complete(i, p) ==
    /\ p \in DOMAIN narinfo[i]
    /\ \A d \in Range(drefs[p]) : d \in DOMAIN result[i]

\* C17: refs/<H>/result is visible only when the package is complete, in
\* every state a reader or a cancellation can meet.
C17_VisibleOnlyWhenComplete ==
    \A i \in Instances : \A p \in DOMAIN result[i] : Complete(i, p)

\* The half of it that the peer path is about: a visible result ref has
\* the result refs of its dependencies.
C17_DependenciesFirst ==
    \A i \in Instances : \A p \in DOMAIN result[i] :
        \A d \in Range(drefs[p]) : d \in DOMAIN result[i]

\* --------------------------------------------------------------- C18
\* C18: where refs/<H>/result is a package commit and refs/<H>/narinfo is
\* set, the key of the metadata blob is the hex OID of the root tree of
\* that commit.
C18_KeyIsTreeOid ==
    \A i \in Instances : \A p \in DOMAIN result[i] :
        (IsCommit(result[i][p]) /\ p \in DOMAIN narinfo[i])
            => narinfo[i][p].key = to_string(odb[result[i][p].id].tree)

\* An add_closure has written, from a daemon, both refs of a package that
\* has dependencies.
C18_Witness ==
    \E t \in Tasks :
        /\ Returned(t, "add_closure") /\ task[t].outcome = "Ok" /\ task[t].tier = "daemon"
        /\ drefs[task[t].root] # <<>>
        /\ HasBoth(task[t].inst, task[t].root)
        /\ IsCommit(result[task[t].inst][task[t].root])

\* --------------------------------------------------------------- C19
\* The OID is that of a package commit of p: a commit whose root tree is
\* the tree of p and whose parents are commits.
PackageCommit(oid, p) ==
    /\ IsCommit(oid)
    /\ odb[oid.id].tree = TreeOid(p)
    /\ \A j \in 1..Len(odb[oid.id].parents) : IsCommit(odb[oid.id].parents[j])

\* C19: every refs/<H>/result points to a package commit of H, never to a
\* tree or a blob, whichever operation set it.
C19_ResultIsCommit ==
    \A i \in Instances : \A p \in DOMAIN result[i] : PackageCommit(result[i][p], p)

\* --------------------------------------------------------------- C20
\* C20: entry_exists(H) is true exactly when both refs/<H>/result and
\* refs/<H>/narinfo exist.
C20_EntryExistsBothRefs ==
    \A i \in Instances : \A p \in DOMAIN drefs : entry_exists(i, p) <=> HasBoth(i, p)

\* --------------------------------------------------------------- C21
\* Replication between peers: callers of add_closure on instance 1, which
\* ingests from its daemons, and on instance 3, which has no daemon and
\* replicates from instance 1 (its other remote, instance 2, stays empty).
\* One call more than in Spec, for a replica to follow two calls on its peer.
PeerCalls == MaxCalls + 1

InitPeer ==
    /\ InitRepo
    /\ drefs \in {DagRefs, DupRefs}
    /\ has = HasAll

NextPeer ==
    \E t \in Tasks :
        \/ \E p \in DOMAIN drefs : MayCallUpTo(t, PeerCalls) /\ StartClosure(t, 1, p)
        \/ \E p \in DOMAIN drefs : MayCallUpTo(t, PeerCalls) /\ StartClosure(t, 3, p)
        \/ add_closure_local(t)
        \/ add_closure_remote(t)
        \/ add_closure_walk(t)
        \/ add_closure_daemons(t)
        \/ add_closure_deps(t)
        \/ add_closure_commit(t)
        \/ add_closure_ref2(t)

SpecPeer == InitPeer /\ [][NextPeer]_vars

\* C21: an add_closure(P) on a fresh instance without daemons, called after
\* add_closure(P) returned Ok from the daemons on a remote of it, succeeds
\* (no I/O fault occurring), and once every call has returned the instance
\* has, for every hash of the closure of P, both refs with the OIDs they
\* have on that remote.
C21_PeerReplication ==
    \A t \in Tasks :
        (/\ Returned(t, "add_closure")
         /\ \A u \in Tasks : task[u].st # "run"
         /\ task[t].fresh
         /\ task[t].seeded # {}
         /\ available_daemons(task[t].inst) = <<>>
         /\ faults = 0)
            => /\ task[t].outcome = "Ok"
               /\ \A a \in task[t].seeded : \A q \in Closure(task[t].root) :
                     /\ HasBoth(a, q) /\ HasBoth(task[t].inst, q)
                     /\ result[task[t].inst][q] = result[a][q]
                     /\ narinfo[task[t].inst][q] = narinfo[a][q]

\* --------------------------------------------------------------- C22
\* The instances given add_closure calls only, by concurrent callers.
NextClosure ==
    \E t \in Tasks :
        \/ \E i \in Instances, p \in DOMAIN drefs : call_add_closure(t, i, p)
        \/ add_closure_local(t)
        \/ add_closure_remote(t)
        \/ add_closure_walk(t)
        \/ add_closure_daemons(t)
        \/ add_closure_deps(t)
        \/ add_closure_commit(t)
        \/ add_closure_ref2(t)

SpecClosure == Init /\ [][NextClosure]_vars

\* C22: instances that start empty and are given the same daemon data have
\* the same package commit OID at refs/<H>/result for every hash they both
\* resolved, whatever add_closure calls they were given and however the
\* calls interleaved.
C22_SameCommitOids ==
    \A i, j \in Instances : \A p \in DOMAIN result[i] \cap DOMAIN result[j] :
        /\ IsCommit(result[i][p])
        /\ result[i][p] = result[j][p]

\* Task t ingested the whole closure of its root from daemon d.
IngestedFrom(t, d) ==
    /\ Returned(t, "add_closure") /\ task[t].outcome = "Ok" /\ task[t].tier = "daemon"
    /\ \A q \in Closure(task[t].root) : <<"fetch", d, q>> \in task[t].dlog

\* Two instances have each ingested, from a daemon of their own, the
\* closure of the same package with dependencies.
C22_Witness ==
    \E t, u \in Tasks :
        /\ task[t].inst = 1 /\ task[u].inst = 2
        /\ task[t].root = task[u].root
        /\ drefs[task[t].root] # <<>>
        /\ IngestedFrom(t, "local1")
        /\ IngestedFrom(u, "b1")
        /\ result[1][task[t].root] = result[2][task[t].root]

\* --------------------------------------------------------------- C23
\* Calls enough for a peer to hold every package before another instance
\* asks for one of them.
WalkCalls == MaxCalls + 2

InitWalk ==
    /\ InitRepo
    /\ drefs \in {RingRefs, SelfRefs, LassoRefs}
    /\ has = HasAll

\* A step of the call that caller t runs: an add_single on instance 1 or an
\* add_closure on instance 3 (remotes, no daemon).
StepWalk(t) ==
    \/ add_single_ref1(t)
    \/ add_single_ref2(t)
    \/ add_closure_local(t)
    \/ add_closure_remote(t)
    \/ add_closure_walk(t)
    \/ add_closure_daemons(t)

\* Instance 1 is filled package by package from malformed metadata;
\* instance 3 replicates from it.
NextWalk ==
    \E t \in Tasks :
        \/ \E p \in DOMAIN drefs : MayCallUpTo(t, WalkCalls) /\ StartSingle(t, 1, p)
        \/ \E p \in DOMAIN drefs : MayCallUpTo(t, WalkCalls) /\ StartClosure(t, 3, p)
        \/ StepWalk(t)

SpecWalk ==
    InitWalk /\ [][NextWalk]_vars /\ \A t \in Tasks : WF_vars(StepWalk(t))

IsDistinct(s) == \A a, b \in 1..Len(s) : a # b => s[a] # s[b]

\* No hash was taken from the queue twice or waits in it twice, and the
\* hashes enqueued so far are the visited ones.
WalkOnce(f) ==
    /\ IsDistinct(f.popped \o f.open)
    /\ Range(f.popped) \cup Range(f.open) = f.visited

\* C23: the walk of the dependencies that follows a successful fetch from a
\* peer processes each hash at most once and terminates, for every finite
\* reference graph, cyclic and self-referencing ones included.
C23_WalkTerminates ==
    /\ [](\A t \in Tasks : Running(t, "walk") => WalkOnce(Top(task[t])))
    /\ \A t \in Tasks :
          (task[t].st = "run" /\ task[t].op = "add_closure")
              ~> (task[t].st = "done" /\ task[t].op = "add_closure")

\* A walk over a cycle of more than one package has returned the commit.
C23_Witness ==
    \E t \in Tasks :
        /\ Returned(t, "add_closure") /\ task[t].inst = 3
        /\ task[t].outcome = "Ok" /\ task[t].tier = "peer"
        /\ Cardinality(Closure(task[t].root)) > 1
        /\ \E q \in Range(drefs[task[t].root]) : task[t].root \in Closure(q)

\* --------------------------------------------------------------- C24
\* CaCache::new on a new repository or on one that holds an entry.
InitCache ==
    /\ InitStore
    /\ drefs = DagRefs /\ has = HasAll
    /\ \E keys \in {{}} \cup {{key_of(path)} : path \in Paths} : cache = NewCache(keys)

\* Threads that share one CaCache call add.
NextCache ==
    \E t \in Tasks :
        \/ \E path \in Paths : cache_call_add(t, path)
        \/ cache_query(t)
        \/ cache_blob(t)
        \/ cache_create_tree(t)
        \/ cache_tree_entry(t)
        \/ cache_update_tree(t)
        \/ cache_commit(t)

SpecCache == InitCache /\ [][NextCache]_vars

\* C24: no CaCache operation takes the repository mutex while the same call
\* holds it; no add panics or deadlocks on its own guard, alone or with
\* other threads calling add.
C24_NoSelfLock ==
    \A t \in Tasks : cache.thread[t].why # "relock"

\* No add ever commits: the tree of HEAD stays as the repository was opened.
C24_NothingAdded == [][cache'.head = cache.head]_vars

====
